---- MODULE Spec2Model ----
(***************************************************************************)
(* Model of book_formatter.py: the heading/structure classifier            *)
(* (parse_docx_input, parse_pdf_input), the title normaliser               *)
(* (clean_structure) and the renderer loops (build_docx, build_pdf).       *)
(*                                                                         *)
(* A text is a sequence of characters, each character a one-character     *)
(* string.  The em dash U+2014 is written as the atom EMDASH.              *)
(***************************************************************************)
EXTENDS Integers, Sequences, FiniteSets, TLC

VARIABLES mode, doc, lines, i, headings, blocks, curr_level, curr_buf, pc,
          synth,
          cleaned_h, sec_idx, ch_idx, ci, ret_h, ret_b, pass,
          target, hi, bi, events

\* the locals of the parsers (synth: the history of the implicit heading)
parseVars == <<mode, doc, lines, i, curr_level, curr_buf, synth>>

\* the locals and the result of clean_structure (pass: how often it ran)
cleanVars == <<cleaned_h, sec_idx, ch_idx, ci, ret_h, ret_b, pass>>

\* the locals of build_docx / build_pdf and what they emitted
renderVars == <<target, hi, bi, events>>

vars == <<parseVars, headings, blocks, pc, cleanVars, renderVars>>

\* Optional[int]: None is written 0 (the levels are 1 and 2, and "if level:"
\* treats None and 0 alike)
None == 0

\* clean_structure not entered: its locals as line 155-157 sets them
CleanIdle ==
    /\ cleaned_h = <<>>
    /\ sec_idx = 0
    /\ ch_idx = 0
    /\ ci = 1
    /\ ret_h = <<>>
    /\ ret_b = <<>>
    /\ pass = 1

\* no renderer entered
RenderIdle ==
    /\ target = "none"
    /\ hi = 1
    /\ bi = 0
    /\ events = <<>>

\* no parser entered
ParseIdle ==
    /\ mode = "none"
    /\ doc = <<>>
    /\ lines = <<>>
    /\ i = 1
    /\ curr_level = None
    /\ curr_buf = <<>>
    /\ synth = <<>>

(***************************************************************************)
(* Characters and character classes (Python str semantics of \s, \d, \w,   *)
(* str.upper, str.lower restricted to the characters that occur here).     *)
(***************************************************************************)
EMDASH == "EMDASH"

LowerLetters == <<"a","b","c","d","e","f","g","h","i","j","k","l","m",
                  "n","o","p","q","r","s","t","u","v","w","x","y","z">>

UpperLetters == <<"A","B","C","D","E","F","G","H","I","J","K","L","M",
                  "N","O","P","Q","R","S","T","U","V","W","X","Y","Z">>

Range(f) == { f[k] : k \in DOMAIN f }

LowerSet == Range(LowerLetters)

UpperSet == Range(UpperLetters)

DigitSet == {"0","1","2","3","4","5","6","7","8","9"}

SpaceSet == {" ", "\t", "\n"}

\* str.upper on [a-z], str.lower on [A-Z]
UpperMap ==
    [c \in LowerSet |->
        UpperLetters[CHOOSE k \in DOMAIN LowerLetters : LowerLetters[k] = c]]

LowerMap ==
    [c \in UpperSet |->
        LowerLetters[CHOOSE k \in DOMAIN UpperLetters : UpperLetters[k] = c]]

IsLower(c) == c \in LowerSet

IsUpper(c) == c \in UpperSet

IsLetter(c) == IsLower(c) \/ IsUpper(c)

IsDigit(c) == c \in DigitSet

IsSpace(c) == c \in SpaceSet

IsWordChar(c) == IsLetter(c) \/ IsDigit(c) \/ c = "_"

IsAny(c) == c # "\n"

Upper(c) == IF IsLower(c) THEN UpperMap[c] ELSE c

Lower(c) == IF IsUpper(c) THEN LowerMap[c] ELSE c

UpperStr(s) == [k \in DOMAIN s |-> Upper(s[k])]

LowerStr(s) == [k \in DOMAIN s |-> Lower(s[k])]

Max(S) == CHOOSE m \in S : \A n \in S : n <= m

Min(S) == CHOOSE m \in S : \A n \in S : m <= n

\* s[a..] : the suffix of s from position a (empty when a > Len(s))
From(s, a) == SubSeq(s, a, Len(s))

\* str.strip(chars) with chars the set cs; str.strip() is Strip(s, whitespace)
StripSet(s, cs) ==
    LET keep == { k \in 1..Len(s) : s[k] \notin cs }
    IN  IF keep = {} THEN <<>> ELSE SubSeq(s, Min(keep), Max(keep))

strip(s) == StripSet(s, SpaceSet)

(***************************************************************************)
(* Regular-expression matching.  A position p in 1..Len(s)+1 is the index  *)
(* of the next character to read; each operator maps the set P of          *)
(* positions a prefix of the pattern can end at to the set the longer      *)
(* prefix can end at (all ways the backtracking matcher can succeed).      *)
(***************************************************************************)
\* the character classes of the patterns
InClass(c, cls) ==
    CASE cls = "s"     -> IsSpace(c)
      [] cls = "d"     -> IsDigit(c)
      [] cls = "."     -> IsAny(c)
      [] cls = "dot"   -> c = "."
      [] cls = "roman" -> Upper(c) \in {"I","V","X","L","C"}
      [] cls = "dash"  -> c \in {EMDASH, "-"}

\* one character of class cls
One(s, P, cls) ==
    { p + 1 : p \in { q \in P : q <= Len(s) /\ InClass(s[q], cls) } }

\* cls*
Star(s, P, cls) ==
    { q \in 1..(Len(s) + 1) :
        \E p \in P : p <= q /\ \A k \in p..(q - 1) : InClass(s[k], cls) }

\* cls+
Plus(s, P, cls) == Star(s, One(s, P, cls), cls)

\* the literal word w; nocase = TRUE under re.I
Lit(s, P, w, nocase) ==
    { p + Len(w) : p \in { q \in P :
        /\ q + Len(w) - 1 <= Len(s)
        /\ \A k \in 1..Len(w) :
              IF nocase THEN Lower(s[q + k - 1]) = Lower(w[k])
                        ELSE s[q + k - 1] = w[k] } }

\* \b at position p: exactly one side of p is a word character
AtBoundary(s, p) ==
    LET before == p > 1 /\ IsWordChar(s[p - 1])
        after  == p <= Len(s) /\ IsWordChar(s[p])
    IN  before # after

Boundary(s, P) == { p \in P : AtBoundary(s, p) }

W_SECTION == <<"S","E","C","T","I","O","N">>

W_CHAPTER == <<"C","H","A","P","T","E","R">>

\* sec_pat = ^\s*SECTION\s+([IVXLC]+)\b.*   (re.I), used with .match
sec_pat(s) ==
    LET p1 == Star(s, {1}, "s")
        p2 == Lit(s, p1, W_SECTION, TRUE)
        p3 == Plus(s, p2, "s")
        p4 == Plus(s, p3, "roman")
        p5 == Boundary(s, p4)
    IN  Star(s, p5, ".") # {}

\* ch_pat = ^\s*CHAPTER\s+(\d+)\b.*   (re.I), used with .match
ch_pat(s) ==
    LET p1 == Star(s, {1}, "s")
        p2 == Lit(s, p1, W_CHAPTER, TRUE)
        p3 == Plus(s, p2, "s")
        p4 == Plus(s, p3, "d")
        p5 == Boundary(s, p4)
    IN  Star(s, p5, ".") # {}

\* h1_pat with optional whitespace after the period: ^\s*\d+\.\s*.+
h1_pat_loose(s) ==
    LET p1 == Star(s, {1}, "s")
        p2 == Plus(s, p1, "d")
        p3 == One(s, p2, "dot")
        p4 == Star(s, p3, "s")
    IN  Plus(s, p4, ".") # {}

\* h1_pat = ^\s*\d+\.\s+.+   used with .match
h1_pat(s) ==
    LET p1 == Star(s, {1}, "s")
        p2 == Plus(s, p1, "d")
        p3 == One(s, p2, "dot")
        p4 == Plus(s, p3, "s")
    IN  Plus(s, p4, ".") # {}

\* h2_pat = ^\s*\d+\.\d+\s+.+   used with .match
h2_pat(s) ==
    LET p1 == Star(s, {1}, "s")
        p2 == Plus(s, p1, "d")
        p3 == One(s, p2, "dot")
        p4 == Plus(s, p3, "d")
        p5 == Plus(s, p4, "s")
    IN  Plus(s, p5, ".") # {}

(***************************************************************************)
(* Input documents.  A docx paragraph is <<text, style>> (style "" when    *)
(* p.style is None); a pdf document is the list of raw lines of the        *)
(* extracted text, which carry no style.                                   *)
(***************************************************************************)
MaxUnits == 3

MaxTextLen == 5

MaxSuffixLen == 2

SeqsUpTo(S, n) == UNION { [1..k -> S] : k \in 0..n }

T_body == <<"x">>

T_body2 == <<"y", ".">>

T_blank == <<" ">>

T_top == <<"1", ".", " ", "A">>

T_sub == <<" ", "1", ".", "1", " ", "B">>

\* the paragraphs the parse specification draws its documents from
ParseUnits ==
    { <<T_body, "Normal">>, <<T_body2, "">>, <<T_blank, "Heading 1">>,
      <<T_top, "Normal">>, <<T_sub, "">>,
      <<T_body, "Heading 1">>, <<T_body2, "Titolo 2">>,
      <<T_top, "Heading 2">> }

ParseLines == { <<u[1], "">> : u \in ParseUnits }

\* "Just a line."
T_just == <<"J","u","s","t"," ","a"," ","l","i","n","e",".">>

\* "Random Title"
T_random == <<"R","a","n","d","o","m"," ","T","i","t","l","e">>

\* "1. Overview", "Some body text.", "1.1 Details", "More text."
T_overview == <<"1","."," ","O","v","e","r","v","i","e","w">>

T_somebody == <<"S","o","m","e"," ","b","o","d","y"," ","t","e","x","t",".">>

T_details == <<"1",".","1"," ","D","e","t","a","i","l","s">>

T_more == <<"M","o","r","e"," ","t","e","x","t",".">>

JustDoc == << <<T_just, "">> >>

TwoHeadingsDoc == << <<T_random, "Heading 1">>, <<T_random, "Heading 2">> >>

ExampleDoc ==
    << <<T_overview, "">>, <<T_somebody, "">>, <<T_details, "">>,
       <<T_more, "">> >>

ParseDocs(m) ==
    IF m = "docx"
    THEN SeqsUpTo(ParseUnits, MaxUnits) \cup {JustDoc, TwoHeadingsDoc}
    ELSE SeqsUpTo(ParseLines, MaxUnits) \cup {JustDoc}

\* the one-paragraph documents the classification is checked on: every text
\* over a small alphabet, and the textual markers followed by a short suffix
ClassifyTexts ==
    SeqsUpTo({"1", ".", " ", "a"}, MaxTextLen)
    \cup { pre \o suf : pre \in {W_SECTION, LowerStr(W_CHAPTER)},
                        suf \in SeqsUpTo({" ", "I", "1", "a"}, MaxSuffixLen) }

ClassifyStyles ==
    {"", "Heading 1", "Titolo 1", "Heading 2", "Titolo 2", "Normal"}

ClassifyDocs(m) ==
    { << <<t, st>> >> : t \in ClassifyTexts,
                        st \in (IF m = "docx" THEN ClassifyStyles ELSE {""}) }
    \cup {ExampleDoc}

(***************************************************************************)
(* parse_docx_input / parse_pdf_input                                      *)
(***************************************************************************)
\* "SECTION I <em dash> INTRODUCTION"
ImplicitTitle ==
    W_SECTION \o <<" ", "I", " ", EMDASH, " ">>
              \o <<"I","N","T","R","O","D","U","C","T","I","O","N">>

\* flush() that tags every block as a Section block
flush_level1(bl, cl, buf) ==
    IF cl # None THEN Append(bl, <<1, buf>>) ELSE bl

\* flush() that drops a block with no paragraphs
flush_nonempty(bl, cl, buf) ==
    IF cl # None /\ buf # <<>> THEN Append(bl, <<cl, buf>>) ELSE bl

\* flush(): the blocks list after the call
flush(bl, cl, buf) ==
    IF cl # None THEN Append(bl, <<cl, buf>>) ELSE bl

\* the level chosen for a docx paragraph (None: body text)
docx_level(text, style) ==
    IF style \in {"Heading 1", "Titolo 1"} THEN 1
    ELSE IF style \in {"Heading 2", "Titolo 2"} THEN 2
    ELSE IF sec_pat(text) \/ h1_pat(text) THEN 1
    ELSE IF ch_pat(text) \/ h2_pat(text) THEN 2
    ELSE None

\* the level chosen for a pdf line (None: body text)
pdf_level(ln) ==
    IF sec_pat(ln) \/ h1_pat(ln) THEN 1
    ELSE IF ch_pat(ln) \/ h2_pat(ln) THEN 2
    ELSE None

\* "if curr_level != 2": also fires under an active Section
needs_implicit_not2(cl) == cl # 2

\* "if curr_level is None" in the body-text branch
needs_implicit(cl) == cl = None

\* lines = [ln.strip() for ln in raw.splitlines() if ln.strip()]
RECURSIVE strip_lines(_)
strip_lines(raw) ==
    IF raw = <<>> THEN <<>>
    ELSE LET ln == strip(Head(raw)[1])
         IN  IF ln = <<>> THEN strip_lines(Tail(raw))
             ELSE <<ln>> \o strip_lines(Tail(raw))

\* one heading unit: flush(); headings.append((level, text)); curr_level = level
OnHeading(level, text) ==
    /\ blocks' = flush(blocks, curr_level, curr_buf)
    /\ headings' = Append(headings, <<level, text>>)
    /\ curr_level' = level
    /\ curr_buf' = <<>>
    /\ synth' = synth

\* one body unit: the implicit heading when none is active, then the append
OnBody(text) ==
    /\ blocks' = blocks
    /\ IF needs_implicit(curr_level)
       THEN /\ curr_level' = 1
            /\ headings' = Append(headings, <<1, ImplicitTitle>>)
            /\ synth' = Append(synth, <<Len(headings) + 1, Len(curr_buf)>>)
       ELSE UNCHANGED <<curr_level, headings, synth>>
    /\ curr_buf' = Append(curr_buf, text)

\* one iteration of "for p in doc.paragraphs"
DocxStep ==
    /\ pc = "loop" /\ mode = "docx" /\ i <= Len(doc)
    /\ LET text  == strip(doc[i][1])
           style == doc[i][2]
           level == docx_level(text, style)
       IN  IF text = <<>>
           THEN UNCHANGED <<headings, blocks, curr_level, curr_buf, synth>>
           ELSE IF level # None THEN OnHeading(level, text)
                ELSE OnBody(text)
    /\ i' = i + 1
    /\ UNCHANGED <<mode, doc, lines, pc, cleanVars, renderVars>>

\* raw = pdf_extract_text(path); lines = [...]
PdfExtract ==
    /\ pc = "extract" /\ mode = "pdf"
    /\ lines' = strip_lines(doc)
    /\ pc' = "loop"
    /\ UNCHANGED <<mode, doc, i, headings, blocks, curr_level, curr_buf, synth,
                   cleanVars, renderVars>>

\* one iteration of "for ln in lines"
PdfStep ==
    /\ pc = "loop" /\ mode = "pdf" /\ i <= Len(lines)
    /\ LET ln    == lines[i]
           level == pdf_level(ln)
       IN  IF level # None THEN OnHeading(level, ln) ELSE OnBody(ln)
    /\ i' = i + 1
    /\ UNCHANGED <<mode, doc, lines, pc, cleanVars, renderVars>>

\* the loop is over: flush(); return headings, blocks
ParseReturn ==
    /\ pc = "loop"
    /\ i > Len(IF mode = "docx" THEN doc ELSE lines)
    /\ blocks' = flush(blocks, curr_level, curr_buf)
    /\ curr_level' = None
    /\ curr_buf' = <<>>
    /\ pc' = "parsed"
    /\ UNCHANGED <<mode, doc, lines, i, headings, synth, cleanVars, renderVars>>

ParseInit(m, d) ==
    /\ mode = m
    /\ doc = d
    /\ lines = <<>>
    /\ i = 1
    /\ headings = <<>>
    /\ blocks = <<>>
    /\ curr_level = None
    /\ curr_buf = <<>>
    /\ synth = <<>>
    /\ pc = IF m = "pdf" THEN "extract" ELSE "loop"
    /\ CleanIdle
    /\ RenderIdle

Init == \E m \in {"docx", "pdf"} : \E d \in ParseDocs(m) : ParseInit(m, d)

Next ==
    \/ DocxStep
    \/ PdfExtract
    \/ PdfStep
    \/ ParseReturn

Spec == Init /\ [][Next]_vars

\* the same parsers on the documents the classification is checked on
InitClassify ==
    \E m \in {"docx", "pdf"} : \E d \in ClassifyDocs(m) : ParseInit(m, d)

SpecClassify == InitClassify /\ [][Next]_vars

(***************************************************************************)
(* clean_structure                                                         *)
(***************************************************************************)
_ROMANS ==
    << <<"I">>, <<"I","I">>, <<"I","I","I">>, <<"I","V">>, <<"V">>,
       <<"V","I">>, <<"V","I","I">>, <<"V","I","I","I">>, <<"I","X">>,
       <<"X">>, <<"X","I">>, <<"X","I","I">>, <<"X","I","I","I">>,
       <<"X","I","V">>, <<"X","V">>, <<"X","V","I">>, <<"X","V","I","I">>,
       <<"X","V","I","I","I">>, <<"X","I","X">>, <<"X","X">> >>

_roman(n) == IF 1 <= n /\ n <= Len(_ROMANS) THEN _ROMANS[n] ELSE <<"I">>

DigitChars == <<"0","1","2","3","4","5","6","7","8","9">>

RECURSIVE IntToStr(_)
\* str(n) for n >= 0, as an f-string formats ch_idx
IntToStr(n) ==
    IF n < 10 THEN <<DigitChars[n + 1]>>
    ELSE IntToStr(n \div 10) \o <<DigitChars[(n % 10) + 1]>>

\* text.replace(em dash, "-")
replace_dash(s) == [k \in DOMAIN s |-> IF s[k] = EMDASH THEN "-" ELSE s[k]]

RECURSIVE split(_)
\* str.split(): the maximal runs of non-whitespace characters
split(s) ==
    LET st == { k \in 1..Len(s) : ~IsSpace(s[k]) }
    IN  IF st = {} THEN <<>>
        ELSE LET a  == Min(st)
                 sp == { k \in a..Len(s) : IsSpace(s[k]) }
                 b  == IF sp = {} THEN Len(s) + 1 ELSE Min(sp)
             IN  <<SubSeq(s, a, b - 1)>> \o split(From(s, b))

RECURSIVE join(_)
\* " ".join(words)
join(words) ==
    IF words = <<>> THEN <<>>
    ELSE IF Len(words) = 1 THEN words[1]
    ELSE words[1] \o <<" ">> \o join(Tail(words))

\* t = " ".join(text.replace(em dash, "-").split()).strip(" .")
norm(text) == StripSet(join(split(replace_dash(text))), {" ", "."})

\* where group(1) of  word\s+cls+\s*[dash]\s*(.+)  starts when the match
\* starts at q: the greedy \s* before the group takes all it can while one
\* character is left for (.+); the empty set when there is no match at q
GroupStarts(t, q, word, cls) ==
    LET p1 == Lit(t, {q}, word, TRUE)
        p2 == Plus(t, p1, "s")
        p3 == Plus(t, p2, cls)
        p4 == Star(t, p3, "s")
        p5 == One(t, p4, "dash")
        p6 == Star(t, p5, "s")
    IN  { g \in p6 : One(t, {g}, ".") # {} }

\* re.search(word\s+cls+\s*[dash]\s*(.+), t, re.I): <<TRUE, group(1)>> for
\* the leftmost match, <<FALSE, <<>> >> for None
search_title(t, word, cls) ==
    LET qs == { q \in 1..Len(t) : GroupStarts(t, q, word, cls) # {} }
    IN  IF qs = {} THEN <<FALSE, <<>> >>
        ELSE LET g == Max(GroupStarts(t, Min(qs), word, cls))
                 e == Max(Plus(t, {g}, "."))
             IN  <<TRUE, SubSeq(t, g, e - 1)>>

\* re.sub(r"^\d+\.\s*", "", t)
sub_top_number(t) ==
    LET P == Star(t, One(t, Plus(t, {1}, "d"), "dot"), "s")
    IN  IF P = {} THEN t ELSE From(t, Max(P))

\* re.sub(r"^\d+\.\d+\s*", "", t)
sub_sub_number(t) ==
    LET P == Star(t, Plus(t, One(t, Plus(t, {1}, "d"), "dot"), "d"), "s")
    IN  IF P = {} THEN t ELSE From(t, Max(P))

RECURSIVE title_case(_, _, _)
\* re.sub(r"([A-Za-z])([A-Za-z']*)", first upper + rest lower, title), read
\* from position k; inWord: position k continues a match
title_case(s, k, inWord) ==
    IF k > Len(s) THEN <<>>
    ELSE IF inWord /\ (IsLetter(s[k]) \/ s[k] = "'")
         THEN <<Lower(s[k])>> \o title_case(s, k + 1, TRUE)
    ELSE IF IsLetter(s[k])
         THEN <<Upper(s[k])>> \o title_case(s, k + 1, TRUE)
    ELSE <<s[k]>> \o title_case(s, k + 1, FALSE)

\* AI|LLM|API|SaaS|SQL|CPU|GPU|UI|UX|CLI|SDK|API, in the order of the pattern
ACRONYMS ==
    << <<"A","I">>, <<"L","L","M">>, <<"A","P","I">>, <<"S","a","a","S">>,
       <<"S","Q","L">>, <<"C","P","U">>, <<"G","P","U">>, <<"U","I">>,
       <<"U","X">>, <<"C","L","I">>, <<"S","D","K">>, <<"A","P","I">> >>

\* the alternatives of \b(...)\b that match at position k; the pattern has no
\* re.I, so the comparison is case-sensitive
acronyms_at(s, k) ==
    { a \in DOMAIN ACRONYMS :
        /\ AtBoundary(s, k)
        /\ Lit(s, {k}, ACRONYMS[a], FALSE) # {}
        /\ AtBoundary(s, k + Len(ACRONYMS[a])) }

RECURSIVE upper_acronyms(_, _)
\* re.sub(r"\b(AI|...|API)\b", lambda m: m.group(0).upper(), title), read from
\* position k
upper_acronyms(s, k) ==
    IF k > Len(s) THEN <<>>
    ELSE IF acronyms_at(s, k) # {}
         THEN LET w == ACRONYMS[Min(acronyms_at(s, k))]
              IN  UpperStr(w) \o upper_acronyms(s, k + Len(w))
    ELSE <<s[k]>> \o upper_acronyms(s, k + 1)

\* the display title of a Section entry
section_title(text) ==
    LET t == norm(text)
        m == search_title(t, W_SECTION, "roman")
    IN  UpperStr(IF m[1] THEN m[2] ELSE sub_top_number(t))

\* the display title of a Chapter entry
chapter_title(text) ==
    LET t == norm(text)
        m == search_title(t, W_CHAPTER, "d")
        title == IF m[1] THEN m[2] ELSE sub_sub_number(t)
    IN  upper_acronyms(title_case(title, 1, FALSE), 1)

SEP == <<" ", EMDASH, " ">>

\* sec_idx after one entry of the loop
next_sec_idx(level, sec) == IF level = 1 THEN sec + 1 ELSE sec

\* ch_idx after one entry of the loop that restarts at every Section
next_ch_idx_reset(level, ch) == IF level = 1 THEN 0 ELSE ch + 1

\* ch_idx after one entry of the loop
next_ch_idx(level, ch) == IF level = 1 THEN ch ELSE ch + 1

\* the entry appended for a heading that coerces the level to 1 or 2
cleaned_entry_coerced(level, t) == <<IF level = 1 THEN 1 ELSE 2, t>>

\* the entry appended for a heading: cleaned_h.append((level, t))
cleaned_entry(level, t) == <<level, t>>

\* the text t of one entry, with the counters as already incremented
cleaned_text(level, text, sec, ch) ==
    IF level = 1
    THEN W_SECTION \o <<" ">> \o _roman(sec) \o SEP \o section_title(text)
    ELSE W_CHAPTER \o <<" ">> \o IntToStr(ch) \o SEP \o chapter_title(text)

\* one iteration of "for level, text in headings"
CleanStep ==
    /\ pc = "clean" /\ ci <= Len(headings)
    /\ LET level == headings[ci][1]
           text  == headings[ci][2]
           sec   == next_sec_idx(level, sec_idx)
           ch    == next_ch_idx(level, ch_idx)
       IN  /\ sec_idx' = sec
           /\ ch_idx' = ch
           /\ cleaned_h' =
                Append(cleaned_h,
                       cleaned_entry(level, cleaned_text(level, text, sec, ch)))
    /\ ci' = ci + 1
    /\ UNCHANGED <<headings, blocks, pc, ret_h, ret_b, pass, parseVars,
                   renderVars>>

\* return cleaned_h, blocks
CleanReturn ==
    /\ pc = "clean" /\ ci > Len(headings)
    /\ ret_h' = cleaned_h
    /\ ret_b' = blocks
    /\ pc' = "cleaned"
    /\ UNCHANGED <<headings, blocks, cleaned_h, sec_idx, ch_idx, ci, pass,
                   parseVars, renderVars>>

\* clean_structure called again on what it returned
CleanAgain ==
    /\ pc = "cleaned" /\ pass < 2
    /\ headings' = ret_h
    /\ blocks' = ret_b
    /\ cleaned_h' = <<>>
    /\ sec_idx' = 0
    /\ ch_idx' = 0
    /\ ci' = 1
    /\ pass' = pass + 1
    /\ pc' = "clean"
    /\ UNCHANGED <<ret_h, ret_b, parseVars, renderVars>>

(***************************************************************************)
(* The input as the classifier sees it, for stating the properties.        *)
(***************************************************************************)
NotEmpty(u) == u[1] # <<>>

\* the non-blank units, trimmed, in document order
NonBlank ==
    SelectSeq([k \in DOMAIN doc |-> <<strip(doc[k][1]), doc[k][2]>>], NotEmpty)

UnitLevel(u) ==
    IF mode = "docx" THEN docx_level(u[1], u[2]) ELSE pdf_level(u[1])

BodyIdx == { k \in DOMAIN NonBlank : UnitLevel(NonBlank[k]) = None }

HeadIdx == { k \in DOMAIN NonBlank : UnitLevel(NonBlank[k]) # None }

FirstIsBody == NonBlank # <<>> /\ 1 \in BodyIdx

\* the index, in headings, of the heading most recently seen before unit k
OwnerIdx(k) ==
    Cardinality({ h \in HeadIdx : h < k }) + (IF FirstIsBody THEN 1 ELSE 0)

\* the rank of body unit k among the body units
BodyRank(k) == Cardinality({ h \in BodyIdx : h <= k })

RECURSIVE ParsBefore(_)
\* the number of paragraphs in blocks[1..b-1]
ParsBefore(b) ==
    IF b <= 1 THEN 0 ELSE ParsBefore(b - 1) + Len(blocks[b - 1][2])

Parsed == pc = "parsed"

(***************************************************************************)
(* C1: there are never more blocks than headings, and when the parse has   *)
(* returned every block has the level of the heading at its own index,     *)
(* and holds exactly the body units whose most recent heading (real or     *)
(* implicit) is that heading, in order, none lost and none moved.          *)
(***************************************************************************)
C1_BlockOwnership ==
    /\ Len(blocks) <= Len(headings)
    /\ Parsed =>
         /\ \A b \in DOMAIN blocks : blocks[b][1] = headings[b][1]
         /\ ParsBefore(Len(blocks) + 1) = Cardinality(BodyIdx)
         /\ \A b \in DOMAIN blocks : \A q \in DOMAIN blocks[b][2] :
              \E k \in BodyIdx :
                 /\ BodyRank(k) = ParsBefore(b) + q
                 /\ NonBlank[k][1] = blocks[b][2][q]
                 /\ OwnerIdx(k) = b
                 /\ blocks[b][1] =
                      (IF { h \in HeadIdx : h < k } = {} THEN 1
                       ELSE UnitLevel(NonBlank[Max({ h \in HeadIdx : h < k })]))

\* a Chapter block owned by the second of two headings, after a Section block
C1_Witness ==
    /\ Parsed
    /\ Len(blocks) = 2
    /\ blocks[1][1] = 1 /\ blocks[1][2] # <<>>
    /\ blocks[2][1] = 2 /\ blocks[2][2] # <<>>

(***************************************************************************)
(* C3: a block is flushed for every heading, empty or not: at every moment *)
(* the blocks are one per heading already left behind, and at the end one  *)
(* per heading.  "Heading 1" directly followed by "Heading 2" gives two    *)
(* headings and the blocks (Section, []) and (Chapter, []).                *)
(***************************************************************************)
C3_FlushUnconditional ==
    /\ Len(blocks) = Len(headings) - (IF curr_level # None THEN 1 ELSE 0)
    /\ Parsed => Len(blocks) = Len(headings)
    /\ (Parsed /\ mode = "docx" /\ doc = TwoHeadingsDoc) =>
         /\ headings = << <<1, T_random>>, <<2, T_random>> >>
         /\ blocks = << <<1, <<>> >>, <<2, <<>> >> >>

C3_Witness ==
    /\ Parsed /\ mode = "docx" /\ doc = TwoHeadingsDoc
    /\ Len(headings) = 2
    /\ blocks[Len(blocks)] = <<2, <<>> >>

(***************************************************************************)
(* C4: the implicit heading is synthesized iff the first non-blank unit is *)
(* body text; then exactly once, as headings[1], with nothing buffered     *)
(* yet, and never after a heading has been seen.  ["Just a line."] gives   *)
(* the placeholder and one block; a blank document gives nothing.          *)
(***************************************************************************)
C4_ImplicitHeading ==
    /\ Len(synth) <= 1
    /\ \A k \in DOMAIN synth : synth[k] = <<1, 0>>
    /\ synth # <<>> => headings[1] = <<1, ImplicitTitle>>
    /\ Parsed =>
         /\ (synth # <<>>) <=> FirstIsBody
         /\ FirstIsBody =>
              /\ headings[1] = <<1, ImplicitTitle>>
              /\ blocks[1][1] = 1
              /\ blocks[1][2][1] = NonBlank[1][1]
         /\ doc = JustDoc =>
              /\ headings = << <<1, ImplicitTitle>> >>
              /\ blocks = << <<1, <<T_just>> >> >>
         /\ NonBlank = <<>> => (headings = <<>> /\ blocks = <<>>)

\* body text first, then a real heading, then body text again
C4_Witness ==
    /\ Parsed
    /\ synth = << <<1, 0>> >>
    /\ Len(headings) = 2
    /\ blocks[2][2] # <<>>

C4_WitnessBlank == Parsed /\ doc # <<>> /\ NonBlank = <<>> /\ headings = <<>>

(***************************************************************************)
(* The documented precedence, stated on the shape of the text.             *)
(***************************************************************************)
AllIn(t, a, b, cls) == \A k \in a..b : InClass(t[k], cls)

\* optional blanks, digits, ".", at least one blank, a non-empty title
IsTopNumbered(t) ==
    \E a \in 1..Len(t) : \E n \in a..Len(t) : \E m \in (n + 2)..(Len(t) - 1) :
       /\ AllIn(t, 1, a - 1, "s")
       /\ AllIn(t, a, n, "d")
       /\ n + 1 <= Len(t) /\ t[n + 1] = "."
       /\ AllIn(t, n + 2, m, "s")
       /\ AllIn(t, m + 1, Len(t), ".")

\* optional blanks, digits, ".", digits, at least one blank, a non-empty title
IsSubNumbered(t) ==
    \E a \in 1..Len(t) : \E n \in a..Len(t) : \E d \in (n + 2)..Len(t) :
    \E m \in (d + 1)..(Len(t) - 1) :
       /\ AllIn(t, 1, a - 1, "s")
       /\ AllIn(t, a, n, "d")
       /\ t[n + 1] = "."
       /\ AllIn(t, n + 2, d, "d")
       /\ AllIn(t, d + 1, m, "s")
       /\ AllIn(t, m + 1, Len(t), ".")

\* the word (any case), blanks, a numeral of class cls that ends at a word
\* boundary
IsMarker(t, word, cls) ==
    \E a \in 1..Len(t) : \E b \in (a + Len(word) + 1)..Len(t) :
    \E e \in b..Len(t) :
       /\ AllIn(t, 1, a - 1, "s")
       /\ LowerStr(SubSeq(t, a, a + Len(word) - 1)) = LowerStr(word)
       /\ AllIn(t, a + Len(word), b - 1, "s")
       /\ AllIn(t, b, e, cls)
       /\ (e = Len(t) \/ ~IsWordChar(t[e + 1]))

StyleLevel(style) ==
    IF style \in {"Heading 1", "Titolo 1"} THEN 1
    ELSE IF style \in {"Heading 2", "Titolo 2"} THEN 2
    ELSE None

\* style first, then the numeric patterns, everything else body text
NumericLevel(t, style) ==
    IF StyleLevel(style) # None THEN StyleLevel(style)
    ELSE IF IsSubNumbered(t) THEN 2
    ELSE IF IsTopNumbered(t) THEN 1
    ELSE None

\* style first, then the textual markers and the numeric patterns
MarkerLevel(t, style) ==
    IF StyleLevel(style) # None THEN StyleLevel(style)
    ELSE IF IsMarker(t, W_CHAPTER, "d") \/ IsSubNumbered(t) THEN 2
    ELSE IF IsMarker(t, W_SECTION, "roman") \/ IsTopNumbered(t) THEN 1
    ELSE None

StyleOf(u) == IF mode = "docx" THEN u[2] ELSE ""

RECURSIVE HeadingsOf(_, _)
\* the headings of the units us when level k of unit is decided by lv[k]
HeadingsOf(us, lv) ==
    IF us = <<>> THEN <<>>
    ELSE (IF Head(lv) # None THEN << <<Head(lv), Head(us)[1]>> >> ELSE <<>>)
         \o HeadingsOf(Tail(us), Tail(lv))

ExpectedHeadings(lv) ==
    (IF NonBlank # <<>> /\ lv[1] = None THEN << <<1, ImplicitTitle>> >>
     ELSE <<>>) \o HeadingsOf(NonBlank, lv)

NumericLevels == [k \in DOMAIN NonBlank |-> NumericLevel(NonBlank[k][1], StyleOf(NonBlank[k]))]

MarkerLevels == [k \in DOMAIN NonBlank |-> MarkerLevel(NonBlank[k][1], StyleOf(NonBlank[k]))]

ExampleResult ==
    (doc = ExampleDoc) =>
       /\ headings = << <<1, T_overview>>, <<2, T_details>> >>
       /\ blocks = << <<1, <<T_somebody>> >>, <<2, <<T_more>> >> >>

(***************************************************************************)
(* C2 as stated: every non-blank unit gets the level of the precedence     *)
(* style hint, then sub-numbered (Chapter), then top-numbered (Section),   *)
(* and everything else is body text.  Violated by the paragraph            *)
(* "SECTION I" with an unrecognised style, which the code makes a Section  *)
(* heading.                                                                *)
(***************************************************************************)
C2_NumericOnly ==
    Parsed => (headings = ExpectedHeadings(NumericLevels) /\ ExampleResult)

(***************************************************************************)
(* C2 amended: the precedence is style hint first; without a recognised    *)
(* style a text "SECTION <roman>" is a Section and "CHAPTER <int>" a       *)
(* Chapter (any case), a sub-numbered text is Chapter and never Section, a *)
(* top-numbered text is Section, "N.title" matches nothing; everything     *)
(* else is body text.  The four-unit example gives the stated result.      *)
(***************************************************************************)
C2_LevelPrecedence ==
    Parsed =>
       /\ headings = ExpectedHeadings(MarkerLevels)
       /\ \A b \in DOMAIN blocks : blocks[b][1] = headings[b][1]
       /\ ExampleResult

\* a sub-numbered paragraph with no recognised style became a Chapter
C2_Witness ==
    /\ Parsed /\ Len(doc) = 1
    /\ doc[1][2] = "Normal"
    /\ IsSubNumbered(doc[1][1])
    /\ headings = << <<2, strip(doc[1][1])>> >>

C2_WitnessExample == Parsed /\ doc = ExampleDoc /\ Len(blocks) = 2

(***************************************************************************)
(* clean_structure on heading lists drawn from a bounded set               *)
(***************************************************************************)
MaxHeads == 2

MaxSections == 21

H_empty == <<>>

H_dot == <<".">>

H_top == <<"2", ".", " ", "a", " ", " ", "b", ".">>

H_sub == <<"3", ".", "1", " ", "a", "i", " ", "o", "'", "K">>

H_sec == <<"s", "e", "c", "t", "i", "o", "n", " ", "I", "V", " ", EMDASH,
           " ", "x">>

H_ch == W_CHAPTER \o <<" ", "1", "2", " ", "-", " ", "S", "D", "K">>

H_secprefix == W_SECTION \o <<" ", "I", " ", EMDASH>>

\* "introduction to AI and the API"
H_intro ==
    <<"i","n","t","r","o","d","u","c","t","i","o","n"," ","t","o"," ",
      "A","I"," ","a","n","d"," ","t","h","e"," ","A","P","I">>

CleanTexts == {H_dot, H_top, H_sub, H_sec, H_ch, H_secprefix}

\* Section and Chapter entries, and entries of the levels 0 and 3 that
\* HeadingItem does not exclude
CleanEntries ==
    { <<l, t>> : l \in {1, 2}, t \in CleanTexts }
    \cup { <<3, H_empty>>, <<0, H_top>> }

\* n Section entries with every second one followed by a Chapter entry
LongHeadings(n) ==
    [k \in 1..n |-> IF k % 3 = 0 THEN <<2, H_sub>> ELSE <<1, H_top>>]

CleanHeadings ==
    SeqsUpTo(CleanEntries, MaxHeads)
    \cup { LongHeadings(n) : n \in 1..((3 * MaxSections + 1) \div 2) }
    \cup { << <<2, H_intro>> >> }

CleanBlocks == { <<>>, << <<1, <<T_body>> >>, <<2, <<>> >> >> }

InitClean ==
    /\ ParseIdle
    /\ RenderIdle
    /\ CleanIdle
    /\ pc = "clean"
    /\ headings \in CleanHeadings
    /\ blocks \in CleanBlocks

NextClean ==
    \/ CleanStep
    \/ CleanReturn
    \/ CleanAgain

SpecClean == InitClean /\ [][NextClean]_vars

(***************************************************************************)
(* Helpers for stating the clean_structure properties.                     *)
(***************************************************************************)
StartsWith(s, pre) == Len(pre) <= Len(s) /\ SubSeq(s, 1, Len(pre)) = pre

EndsWith(s, suf) ==
    Len(suf) <= Len(s) /\ SubSeq(s, Len(s) - Len(suf) + 1, Len(s)) = suf

RomanOnes ==
    << <<>>, <<"I">>, <<"I","I">>, <<"I","I","I">>, <<"I","V">>, <<"V">>,
       <<"V","I">>, <<"V","I","I">>, <<"V","I","I","I">>, <<"I","X">> >>

RomanTens == << <<>>, <<"X">>, <<"X","X">>, <<"X","X","X">> >>

\* the roman numeral of k, 1 <= k <= 39
RomanNumeral(k) == RomanTens[(k \div 10) + 1] \o RomanOnes[(k % 10) + 1]

Cleaned == pc = "cleaned"

\* the rank of entry k among the entries of level lv of the input
LevelRank(k, lv) ==
    Cardinality({ j \in 1..k : headings[j][1] = lv })

SectionIdx == { k \in DOMAIN headings : headings[k][1] = 1 }

ChapterIdx == { k \in DOMAIN headings : headings[k][1] = 2 }

\* "SECTION " numeral " <em dash> " / "CHAPTER " number " <em dash> "
SectionPrefix(numeral) == W_SECTION \o <<" ">> \o numeral \o SEP

ChapterPrefix(n) == W_CHAPTER \o <<" ">> \o IntToStr(n) \o SEP

(***************************************************************************)
(* C5: clean_structure returns for every heading list, of any levels and   *)
(* texts: as many entries as it got, entry k made from entry k with the    *)
(* level of entry k, and the blocks it was given.                          *)
(***************************************************************************)
C5_CleanTotal ==
    /\ pc = "clean" =>
         /\ Len(cleaned_h) = ci - 1
         /\ \A k \in DOMAIN cleaned_h : cleaned_h[k][1] = headings[k][1]
    /\ Cleaned =>
         /\ Len(ret_h) = Len(headings)
         /\ \A k \in DOMAIN headings :
               /\ ret_h[k][1] = headings[k][1]
               /\ EndsWith(ret_h[k][2],
                           SEP \o (IF headings[k][1] = 1
                                   THEN section_title(headings[k][2])
                                   ELSE chapter_title(headings[k][2])))
         /\ ret_b = blocks

\* two entries, the first of level 3 with an empty text, and two blocks
C5_Witness ==
    /\ Cleaned /\ pass = 1
    /\ Len(headings) = 2
    /\ headings[1] = <<3, H_empty>>
    /\ Len(ret_h) = 2
    /\ Len(ret_b) = 2

(***************************************************************************)
(* C6: the k-th Section entry gets the roman numeral of k, for every k, so *)
(* no two Section entries get the same numeral.                            *)
(***************************************************************************)
C6_RomanSequential ==
    Cleaned =>
       /\ \A k \in SectionIdx :
             StartsWith(ret_h[k][2], SectionPrefix(RomanNumeral(LevelRank(k, 1))))
       /\ \A j, k \in SectionIdx :
             j # k =>
               ~StartsWith(ret_h[k][2],
                           SectionPrefix(RomanNumeral(LevelRank(j, 1))))

(***************************************************************************)
(* C7: in a list of Section and Chapter entries the k-th Chapter entry     *)
(* gets the integer k, whatever Section entries lie in between.            *)
(***************************************************************************)
C7_ChapterCounter ==
    (Cleaned /\ \A k \in DOMAIN headings : headings[k][1] \in {1, 2}) =>
       \A k \in ChapterIdx :
          StartsWith(ret_h[k][2], ChapterPrefix(LevelRank(k, 2)))

\* a tenth Chapter, with Sections between it and the ninth
C7_Witness ==
    /\ Cleaned /\ pass = 1
    /\ \E k \in ChapterIdx :
          /\ LevelRank(k, 2) = 10
          /\ headings[k - 1][1] = 1
          /\ StartsWith(ret_h[k][2], W_CHAPTER \o <<" ", "1", "0", " ", EMDASH>>)

(***************************************************************************)
(* C8: clean_structure applied to its own result returns that result.      *)
(***************************************************************************)
C8_Idempotent == (Cleaned /\ pass = 2) => ret_h = headings

(***************************************************************************)
(* C9: the Chapter "introduction to AI and the API" gets the display title *)
(* "Introduction To AI And The API".                                       *)
(***************************************************************************)
C9_Acronyms ==
    (Cleaned /\ pass = 1 /\ headings = << <<2, H_intro>> >>) =>
       ret_h[1][2] =
          ChapterPrefix(1) \o
          <<"I","n","t","r","o","d","u","c","t","i","o","n"," ","T","o"," ",
            "A","I"," ","A","n","d"," ","T","h","e"," ","A","P","I">>

(***************************************************************************)
(* build_docx / build_pdf: the content loop.  What is written to the       *)
(* document (docx) or appended to the story (pdf) is recorded in events:   *)
(* <<"H", level, text>> a heading, <<"P", t>> a body paragraph, <<"PB">> a *)
(* page break.                                                             *)
(***************************************************************************)
MaxRenderHeads == 3

MaxRenderBlocks == 2

PB == <<"PB">>

\* title page, copyright page and table of contents, each ended by a page
\* break
Preamble == << <<"TITLE">>, PB, <<"COPYRIGHT">>, PB, <<"TOC">>, PB >>

\* for t in paragraphs: _body_par(doc, t) / story.append(Paragraph(t, Body))
body_events(paragraphs) == [k \in DOMAIN paragraphs |-> <<"P", paragraphs[k]>>]

\* the cursor test that stops one block short of the end of the list
takes_block_strict(level, b) ==
    b + 1 < Len(blocks) /\ blocks[b + 1][1] = level

\* whether the block at the cursor is emitted under this heading
takes_block(level, b) ==
    b < Len(blocks) /\ blocks[b + 1][1] = level

\* the events of one iteration of "for level, text in headings"
step_events(level, text, b) ==
    << <<"H", level, text>> >>
    \o (IF takes_block(level, b) THEN body_events(blocks[b + 1][2]) ELSE <<>>)
    \o (IF level = 1 THEN <<PB>> ELSE <<>>)

\* one iteration of "for level, text in headings", the same statements in
\* build_docx and build_pdf
BuildStep ==
    /\ pc = "build" /\ hi <= Len(headings)
    /\ LET level == headings[hi][1]
           text  == headings[hi][2]
       IN  /\ events' = events \o step_events(level, text, bi)
           /\ bi' = IF takes_block(level, bi) THEN bi + 1 ELSE bi
    /\ hi' = hi + 1
    /\ UNCHANGED <<target, headings, blocks, pc, parseVars, cleanVars>>

\* one iteration of the content loop of build_docx
BuildDocxStep ==
    /\ target = "docx"
    /\ BuildStep

\* one iteration of the content loop of build_pdf
BuildPdfStep ==
    /\ target = "pdf"
    /\ BuildStep

\* return doc / doc.build(story, ...)
BuildReturn ==
    /\ pc = "build" /\ hi > Len(headings)
    /\ pc' = "built"
    /\ UNCHANGED <<headings, blocks, parseVars, cleanVars, renderVars>>

RenderHeads == { <<1, T_top>>, <<2, T_sub>> }

RenderBlocks == { <<1, <<>> >>, <<1, <<T_body>> >>, <<2, <<T_body, T_body2>> >> }

InitRender ==
    /\ ParseIdle
    /\ CleanIdle
    /\ pc = "build"
    /\ target \in {"docx", "pdf"}
    /\ hi = 1
    /\ bi = 0
    /\ events = Preamble
    /\ headings \in SeqsUpTo(RenderHeads, MaxRenderHeads)
    /\ blocks \in SeqsUpTo(RenderBlocks, MaxRenderBlocks)

NextRender ==
    \/ BuildDocxStep
    \/ BuildPdfStep
    \/ BuildReturn

SpecRender == InitRender /\ [][NextRender]_vars

(***************************************************************************)
(* C10: every Section (level 1) heading is emitted directly after a page   *)
(* break.                                                                  *)
(***************************************************************************)
C10_SectionFreshPage ==
    \A k \in DOMAIN events :
       (events[k][1] = "H" /\ events[k][2] = 1) =>
          (k > 1 /\ events[k - 1] = PB)

(***************************************************************************)
(* cli_main / ui_main: parse, optionally clean_structure, build_docx, then *)
(* build_pdf on the same (headings, blocks).                               *)
(***************************************************************************)
MaxPipeUnits == 3

\* the paragraphs the pipeline specification draws its documents from
PipeUnits ==
    { <<T_body, "Normal">>, <<T_body2, "">>, <<T_blank, "">>,
      <<T_top, "">>, <<T_sub, "">>, <<T_body, "Heading 2">> }

PipeLines == { <<u[1], "">> : u \in PipeUnits }

PipeDocs(m) ==
    IF m = "docx" THEN SeqsUpTo(PipeUnits, MaxPipeUnits)
    ELSE SeqsUpTo(PipeLines, MaxPipeUnits)

\* if args.clean == "heuristic": clean_structure(heads, blocks) is entered
CallClean ==
    /\ pc = "parsed"
    /\ cleaned_h' = <<>>
    /\ sec_idx' = 0
    /\ ch_idx' = 0
    /\ ci' = 1
    /\ pc' = "clean"
    /\ UNCHANGED <<headings, blocks, ret_h, ret_b, pass, parseVars, renderVars>>

\* args.clean == "none": the parser's result goes to the renderers as it is
SkipClean ==
    /\ pc = "parsed"
    /\ pc' = "ready"
    /\ UNCHANGED <<headings, blocks, parseVars, cleanVars, renderVars>>

\* heads, blocks = clean_structure(heads, blocks)
TakeCleaned ==
    /\ pc = "cleaned"
    /\ headings' = ret_h
    /\ blocks' = ret_b
    /\ pc' = "ready"
    /\ UNCHANGED <<parseVars, cleanVars, renderVars>>

\* doc = build_docx(..., heads, blocks): the front matter, then bi = 0
CallBuildDocx ==
    /\ pc = "ready"
    /\ target' = "docx"
    /\ hi' = 1
    /\ bi' = 0
    /\ events' = Preamble
    /\ pc' = "build"
    /\ UNCHANGED <<headings, blocks, parseVars, cleanVars>>

\* if not args.no_pdf: build_pdf(..., heads, blocks)
CallBuildPdf ==
    /\ pc = "built" /\ target = "docx"
    /\ target' = "pdf"
    /\ hi' = 1
    /\ bi' = 0
    /\ events' = Preamble
    /\ pc' = "build"
    /\ UNCHANGED <<headings, blocks, parseVars, cleanVars>>

InitPipeline ==
    \E m \in {"docx", "pdf"} : \E d \in PipeDocs(m) : ParseInit(m, d)

NextPipeline ==
    \/ DocxStep
    \/ PdfExtract
    \/ PdfStep
    \/ ParseReturn
    \/ CallClean
    \/ CleanStep
    \/ CleanReturn
    \/ TakeCleaned
    \/ SkipClean
    \/ CallBuildDocx
    \/ BuildDocxStep
    \/ BuildReturn
    \/ CallBuildPdf
    \/ BuildPdfStep

SpecPipeline == InitPipeline /\ [][NextPipeline]_vars

RECURSIVE ExpectedEvents(_)
\* heading 1, block 1, heading 2, block 2, ... up to heading n, a page break
\* after each Section
ExpectedEvents(n) ==
    IF n = 0 THEN <<>>
    ELSE ExpectedEvents(n - 1)
         \o << <<"H", headings[n][1], headings[n][2]>> >>
         \o body_events(blocks[n][2])
         \o (IF headings[n][1] = 1 THEN <<PB>> ELSE <<>>)

IsParagraph(e) == e[1] = "P"

\* the texts of the body paragraphs emitted so far, in order
EmittedTexts ==
    LET ps == SelectSeq(events, IsParagraph)
    IN  [k \in DOMAIN ps |-> ps[k][2]]

IsBodyUnit(u) == UnitLevel(u) = None

\* the texts of the body units of the document, in order
BodyTexts ==
    LET us == SelectSeq(NonBlank, IsBodyUnit)
    IN  [k \in DOMAIN us |-> us[k][1]]

Rendering == pc \in {"build", "built"}

(***************************************************************************)
(* C11: on what a parser returned, cleaned or not, both renderers keep the *)
(* block cursor one behind the heading cursor (it advances on every        *)
(* heading), block i is emitted directly after heading i, and when a       *)
(* renderer is done the paragraphs it emitted are exactly the body units   *)
(* of the document, each once and in order.                                *)
(***************************************************************************)
C11_BlocksUnderOwnHeading ==
    Rendering =>
       /\ Len(blocks) = Len(headings)
       /\ \A k \in DOMAIN blocks : blocks[k][1] = headings[k][1]
       /\ bi = hi - 1
       /\ events = Preamble \o ExpectedEvents(hi - 1)
       /\ pc = "built" => (bi = Len(blocks) /\ EmittedTexts = BodyTexts)

\* the PDF is built from a cleaned structure that starts with the implicit
\* heading, and both its Section and a Chapter have a paragraph
C11_Witness ==
    /\ pc = "built" /\ target = "pdf"
    /\ ret_h = headings /\ Len(headings) >= 2
    /\ synth # <<>>
    /\ \E k \in DOMAIN blocks : blocks[k][1] = 2 /\ blocks[k][2] # <<>>
    /\ Len(EmittedTexts) >= 2
    /\ C11_BlocksUnderOwnHeading

====
